---- MODULE Spec2Model ----
(***************************************************************************)
(* Model of netbrain/visual-regression-action.                             *)
(*                                                                         *)
(*  Spec      - one compare-mode run (run -> runCompare -> uploadToR2) of   *)
(*              the R2 variant, src/unnamed/part_002.                       *)
(*  SpecCrop  - the crop geometry of both variants (part_002 and            *)
(*              src/src/index.ts) as pure functions of their inputs.        *)
(***************************************************************************)
EXTENDS Integers, Sequences, FiniteSets, TLC

\* ------------------------------------------------------------------------
\* Bounds
\* ------------------------------------------------------------------------
MaxNames == 2
MaxContent == 2
MaxPad == 2
MaxMinHeight == 4
MaxHeight == 4
MaxDim == 2
MaxCommitNames == 1
MaxOtherPushes == 1
MaxThresholdLen == 3
MaxBBoxDigits == 1

Names == 1..MaxNames

\* ------------------------------------------------------------------------
\* Program constants
\* ------------------------------------------------------------------------
PixelDiffExit == 22
LayoutDiffExit == 21
IdenticalExit == 0
ErrorExit == 1
DefaultCropPadding == 50
DefaultCropMinHeight == 300
Omitted == -1

ExitCodes == {IdenticalExit, LayoutDiffExit, PixelDiffExit, ErrorExit}

\* ------------------------------------------------------------------------
\* Helpers
\* ------------------------------------------------------------------------
Max(a, b) == IF a >= b THEN a ELSE b
Min(a, b) == IF a <= b THEN a ELSE b
SetMin(S) == CHOOSE x \in S : \A y \in S : x <= y

RECURSIVE SeqOf(_)
\* a directory listing: the names of S in a fixed (ascending) order
SeqOf(S) == IF S = {} THEN <<>> ELSE <<SetMin(S)>> \o SeqOf(S \ {SetMin(S)})

Range(s) == {s[i] : i \in DOMAIN s}
\* Array.prototype.includes
Includes(s, x) == x \in Range(s)
\* Boolean.prototype.toString
ToStr(b) == IF b THEN "true" ELSE "false"

\* ------------------------------------------------------------------------
\* State
\* ------------------------------------------------------------------------
VARIABLES
  pc,                 \* position of the run
  isPR,               \* context.payload.pull_request is present
  inputs,             \* the CompareInputs that matter to control flow
  basePngs, prPngs,   \* the .png entries of screenshots-base / screenshots-pr
  captureDir,         \* capture mode: the screenshot directory on disk
  idx,                \* index of the for..of loop in progress
  hasDiffs,           \* let hasDiffs
  imagesToUpload,     \* const imagesToUpload
  deletedScreenshots, \* const deletedScreenshots
  exitOf,             \* exit code odiff returned per name (-1: not run)
  calls,              \* exec.exec invocations so far: <<tool, name>>
  infoLog,            \* core.info classification lines: <<kind, name>>
  warnings,           \* core.warning lines
  tasks,              \* uploadToR2: state of the upload promise per group
  puts,               \* PutObject commands sent, counted per Key
  bucket,             \* keys stored in the R2 bucket by this run
  uploadError,        \* <<failed, total>> of the Error uploadToR2 threw
  commentPosted,      \* let commentPosted
  commentCalls,       \* number of issues.createComment calls
  comments,           \* comment bodies the API accepted
  outputs,            \* core.setOutput values
  thrown,             \* an error reached the catch of run()
  failedMsgs,         \* core.setFailed messages
  hasBase,            \* fused run: let hasBase
  hasChanges,         \* fused run: let hasChanges
  screenshotsCommitted, \* fused run: let screenshotsCommitted
  combinedFiles,      \* fused run: the *-combined.png files in diffs/
  rewritten,          \* fused run: candidate files mogrify rewrote in place
  cwd,                \* fused run: process.cwd()
  ciBranch,           \* fused run: the remote CI branch as last read or pushed
  gitLog,             \* fused run: git commands of the commit stage, in order
  canvas,             \* dimensions of the two images of the iteration
  mismatched,         \* names odiff was given images of unequal dimensions
  remoteHead,         \* commit stage: the pull-request head branch on origin
  tracking,           \* commit stage: origin/<headRef> in the local clone
  localHead,          \* commit stage: the checked-out branch
  otherPushes,        \* commit stage: pushes of other parties so far
  thresholdInput,     \* input parsing: the diff-threshold input as typed
  thresholdArgs,      \* input parsing: the --threshold arguments issued
  bboxText,           \* bounding-box parsing: the text `convert` printed
  bboxResult,         \* bounding-box parsing: what the regex yielded
  bboxOf,             \* per name: did the bounding-box command print anything
  cropIn, cropOut     \* SpecCrop: inputs and result of the crop computation

compareVars == <<pc, isPR, inputs, basePngs, prPngs, captureDir, idx, hasDiffs,
                 imagesToUpload, deletedScreenshots, exitOf, calls, infoLog,
                 warnings, tasks, puts, bucket, uploadError, commentPosted,
                 commentCalls, comments, outputs, thrown, failedMsgs>>
fusedVars == <<hasBase, hasChanges, screenshotsCommitted, combinedFiles,
               rewritten, cwd, ciBranch, gitLog>>
cropVars == <<cropIn, cropOut>>
canvasVars == <<canvas, mismatched>>
\* what a compare-mode run leaves alone
idleVars == <<fusedVars, cropVars>>
gitVars == <<remoteHead, tracking, localHead, otherPushes>>
parseVars == <<thresholdInput, thresholdArgs, bboxText, bboxResult>>
vars == <<compareVars, fusedVars, cropVars, canvasVars, bboxOf, gitVars, parseVars>>

NoCanvas == [anchor |-> "unset"]
CanvasIdle ==
  /\ canvas = NoCanvas
  /\ mismatched = {}
  /\ bboxOf = [n \in Names |-> "unset"]

\* nothing parsed yet
NoResult == [variant |-> "none"]
\* the parsers in runs whose inputs are already parsed
ParseIdle ==
  /\ thresholdInput = <<>>
  /\ thresholdArgs = <<>>
  /\ bboxText = <<>>
  /\ bboxResult = NoResult

\* the branches in runs that do not look at them
GitIdle ==
  /\ remoteHead = <<>>
  /\ tracking = <<>>
  /\ localHead = <<>>
  /\ otherPushes = 0

NoDir == [exists |-> FALSE, files |-> {}]
CaptureIdle == captureDir = NoDir

NoCrop == [variant |-> "none"]
CropIdle == cropIn = NoCrop /\ cropOut = NoCrop

\* the remote CI branch before any command of the run has looked at it
CiNotRead == [exists |-> "not read", files |-> {}]

\* the state of the fused run before it starts
FusedIdle ==
  /\ hasBase = FALSE
  /\ hasChanges = FALSE
  /\ screenshotsCommitted = FALSE
  /\ combinedFiles = <<>>
  /\ rewritten = {}
  /\ cwd = "GITHUB_WORKSPACE"
  /\ ciBranch = CiNotRead
  /\ gitLog = <<>>

\* ------------------------------------------------------------------------
\* File contents and content addressing
\* ------------------------------------------------------------------------
\* bytes of a file: the format the producing tool wrote, and which bytes
Bytes(fmt) == [fmt : {fmt}, id : 1..MaxContent]

\* getFileHash: sha256 of the content (collision free)
getFileHash(bytes) == [sha256 |-> bytes]

\* `${hash}.png` / `${hash}${outputExt}`
StorageKey(bytes, ext) == [hash |-> getFileHash(bytes), ext |-> ext]

\* outputExt of the composite
OutputExt(format) == IF format = "animated-gif" THEN ".gif" ELSE ".png"
\* the format convert writes for the composite path
OutputFmt(format) == IF format = "animated-gif" THEN "gif" ELSE "png"

NoUrl == <<>>
\* `${inputs.r2PublicUrl}/${key}`
PublicUrl(key) == <<"r2PublicUrl", key>>

\* ------------------------------------------------------------------------
\* Init
\* ------------------------------------------------------------------------
Init ==
  /\ pc = "start"
  /\ isPR \in BOOLEAN
  /\ inputs \in [mode : {"compare"}, postComment : BOOLEAN,
                 failOnChanges : BOOLEAN,
                 outputFormat : {"side-by-side", "animated-gif"}]
  /\ \E B \in SUBSET Names : basePngs = SeqOf(B)
  /\ \E P \in SUBSET Names : prPngs = SeqOf(P)
  /\ idx = 0
  /\ hasDiffs = FALSE
  /\ imagesToUpload = <<>>
  /\ deletedScreenshots = <<>>
  /\ exitOf = [n \in Names |-> -1]
  /\ calls = {}
  /\ infoLog = {}
  /\ warnings = {}
  /\ tasks = <<>>
  /\ puts = <<>>
  /\ bucket = {}
  /\ uploadError = <<>>
  /\ commentPosted = FALSE
  /\ commentCalls = 0
  /\ comments = <<>>
  /\ outputs = [hasDiffs |-> "unset", commentPosted |-> "unset"]
  /\ thrown = FALSE
  /\ failedMsgs = <<>>
  /\ FusedIdle
  /\ CropIdle
  /\ CanvasIdle
  /\ CaptureIdle
  /\ GitIdle
  /\ ParseIdle

\* run(): catch (error) { core.setFailed(`Action failed: ${error}`) }
Throw(reason) ==
  /\ thrown' = TRUE
  /\ failedMsgs' = Append(failedMsgs, <<"Action failed", reason>>)
  /\ pc' = "done"


envVars == <<isPR, inputs, basePngs, prPngs, captureDir>>
uploadVars == <<tasks, puts, bucket, uploadError>>
commentVars == <<commentPosted, commentCalls, comments>>
NoThrow == UNCHANGED <<thrown, failedMsgs>>

\* ------------------------------------------------------------------------
\* runCompare: conditions of the code
\* ------------------------------------------------------------------------
\* mutant: the pull-request check is skipped
InPullRequestAlways == TRUE

\* if (!context.payload.pull_request)
InPullRequest == isPR

\* if (prPngs.length === 0)
NoPrScreenshots == Len(prPngs) = 0

\* mutant: the base set is not consulted
IsNewScreenshotNever(file) == FALSE

\* if (!basePngs.includes(file))
IsNewScreenshot(file) == ~Includes(basePngs, file)

\* mutant: every non-zero exit code counts as changed
IsChangedNonZero(exitCode) == exitCode # IdenticalExit

\* if (exitCode === 22)
IsChanged(exitCode) == exitCode = PixelDiffExit

\* mutant: deleted screenshots are never detected
IsDeletedScreenshotNever(file) == FALSE

\* if (!prPngs.includes(file))
IsDeletedScreenshot(file) == ~Includes(prPngs, file)

\* the shapes of stdout of `convert ... -format %wx%h+%X+%Y info:`
BBoxOutputs == {"WxH+X+Y", "WxH++X++Y", "WxH+-X+-Y", ""}
\* what is remembered of stdout: whether anything was printed
Printed(out) == IF out = "" THEN "empty" ELSE "printed"

\* mutant: the result of the match is not looked at
BBoxMatchesAlways(out) == TRUE

\* bboxOutput.match(/(\d+)x(\d+)\+?\+?(-?\d+)\+?\+?(-?\d+)/)
BBoxMatches(out) == out \in {"WxH+X+Y", "WxH++X++Y", "WxH+-X+-Y"}

\* mutant: the comment stage is never entered
ShouldCommentNever == FALSE

\* if (inputs.postComment && hasDiffs && (imagesToUpload.length > 0 || deletedScreenshots.length > 0))
ShouldComment ==
  /\ inputs.postComment
  /\ hasDiffs
  /\ (Len(imagesToUpload) > 0 \/ Len(deletedScreenshots) > 0)

\* mutant: the fail-on-changes flag is ignored
FailRequestedAlways == hasDiffs

\* if (inputs.failOnChanges && hasDiffs)
FailRequested == inputs.failOnChanges /\ hasDiffs

\* the file of the current iteration of `for (const file of prPngs)`
CurFile == prPngs[idx]

\* end of one iteration of the prPngs loop
NextPrFile ==
  IF idx < Len(prPngs)
    THEN idx' = idx + 1 /\ pc' = "compare"
    ELSE idx' = 1 /\ pc' = "deleted"

\* an element of imagesToUpload; path is <<directory, file>>
Image(path, name, kind, bytes, ext) ==
  [path |-> path, name |-> name, kind |-> kind, bytes |-> bytes,
   hash |-> StorageKey(bytes, ext), url |-> NoUrl]

\* ------------------------------------------------------------------------
\* run / runCompare up to the first screenshot
\* ------------------------------------------------------------------------
Start ==
  /\ pc = "start"
  /\ \E requiredInputsPresent \in BOOLEAN :
       IF ~requiredInputsPresent
         THEN \* core.getInput(..., {required: true}) throws in getInputs
              /\ Throw("Input required and not supplied")
              /\ UNCHANGED <<idx, warnings>>
         ELSE IF ~InPullRequest
           THEN /\ warnings' = warnings \cup {"Not running in a pull request context"}
                /\ pc' = "done"
                /\ UNCHANGED idx
                /\ NoThrow
           ELSE IF NoPrScreenshots
             THEN /\ Throw("No screenshots found in PR artifact")
                  /\ UNCHANGED <<idx, warnings>>
             ELSE /\ pc' = "compare"
                  /\ idx' = 1
                  /\ UNCHANGED warnings
                  /\ NoThrow
  /\ UNCHANGED <<envVars, hasDiffs, imagesToUpload, deletedScreenshots, exitOf,
                 calls, infoLog, uploadVars, commentVars, outputs, idleVars, canvasVars, bboxOf, gitVars, parseVars>>

\* a candidate screenshot without a base: logged, queued for upload, skipped
CompareNew ==
  /\ pc = "compare"
  /\ IsNewScreenshot(CurFile)
  /\ infoLog' = infoLog \cup {<<"New screenshot", CurFile>>}
  /\ hasDiffs' = TRUE
  /\ \E bytes \in Bytes("png") :
       imagesToUpload' = Append(imagesToUpload, Image(<<"prDir", CurFile>>, CurFile, "new",
                                             bytes, ".png"))
  /\ NextPrFile
  /\ NoThrow
  /\ UNCHANGED <<envVars, deletedScreenshots, exitOf, calls, warnings,
                 uploadVars, commentVars, outputs, idleVars, canvasVars, bboxOf, gitVars, parseVars>>

\* what getImageDimensions can return for an image
Dims == [width : 1..MaxDim, height : 1..MaxDim]

\* mutant: only a difference in width triggers the extension
NeedsExtentWidthOnly(baseDims, newDims) == baseDims.width # newDims.width

\* if (baseDims.width !== newDims.width || baseDims.height !== newDims.height)
NeedsExtent(baseDims, newDims) ==
  baseDims.width # newDims.width \/ baseDims.height # newDims.height

\* -gravity northwest -extent `${maxWidth}x${maxHeight}`: the geometry
ExtentGeometry(baseDims, newDims) ==
  [width  |-> Max(baseDims.width, newDims.width),
   height |-> Max(baseDims.height, newDims.height)]

\* the two images after the dimension check: what identify reported, the
\* dimensions of the files now, and the gravity of the extension
Canvas(baseDims, newDims) ==
  IF NeedsExtent(baseDims, newDims)
    THEN [baseDims |-> baseDims, newDims |-> newDims,
          base |-> ExtentGeometry(baseDims, newDims),
          new  |-> ExtentGeometry(baseDims, newDims),
          anchor |-> "northwest"]
    ELSE [baseDims |-> baseDims, newDims |-> newDims,
          base |-> baseDims, new |-> newDims, anchor |-> "none"]

\* the dimensions of the two files as odiff will find them
OnDisk(c) == [base |-> c.base, new |-> c.new, anchor |-> c.anchor]

\* getImageDimensions of both images and the canvas extension
CompareDims ==
  /\ pc = "compare"
  /\ ~IsNewScreenshot(CurFile)
  /\ \E baseDims, newDims \in Dims,
        outcome \in {"ok", "identify failed", "convert failed"} :
       LET extend == outcome # "identify failed" /\ NeedsExtent(baseDims, newDims)
       IN  /\ outcome = "convert failed" => extend
           /\ calls' = calls \cup {<<"identify", CurFile>>}
                             \cup (IF extend THEN {<<"extent", CurFile>>} ELSE {})
           /\ infoLog' = IF extend
                           THEN infoLog \cup {<<"Extending canvases", CurFile>>}
                           ELSE infoLog
           /\ IF outcome = "ok"
                THEN /\ canvas' = OnDisk(Canvas(baseDims, newDims))
                     /\ pc' = "odiff"
                     /\ NoThrow
                ELSE /\ canvas' = NoCanvas
                     /\ Throw(outcome)
  /\ UNCHANGED <<envVars, idx, hasDiffs, imagesToUpload, deletedScreenshots,
                 exitOf, warnings, uploadVars, commentVars, outputs,
                 idleVars, mismatched, bboxOf, gitVars, parseVars>>

\* odiff base new diff --threshold t, { ignoreReturnCode: true }
RunOdiff ==
  /\ pc = "odiff"
  /\ calls' = calls \cup {<<"odiff", CurFile>>}
  /\ mismatched' = IF canvas.base # canvas.new
                      THEN mismatched \cup {CurFile} ELSE mismatched
  /\ canvas' = NoCanvas
  /\ \E exitCode \in ExitCodes :
       /\ exitOf' = [exitOf EXCEPT ![CurFile] = exitCode]
       /\ IF IsChanged(exitCode)
            THEN /\ infoLog' = infoLog \cup {<<"Visual changes detected", CurFile>>}
                 /\ hasDiffs' = TRUE
                 /\ pc' = "bbox"
                 /\ UNCHANGED idx
            ELSE /\ NextPrFile
                 /\ UNCHANGED <<infoLog, hasDiffs>>
  /\ NoThrow
  /\ UNCHANGED <<envVars, imagesToUpload, deletedScreenshots, warnings,
                 uploadVars, commentVars, outputs, idleVars, bboxOf, gitVars, parseVars>>

\* the diff mask and its bounding box
BoundingBox ==
  /\ pc = "bbox"
  /\ calls' = calls \cup {<<"odiff-mask", CurFile>>, <<"bbox", CurFile>>}
  /\ \/ /\ Throw("convert failed")
        /\ UNCHANGED <<idx, infoLog, bboxOf>>
     \/ \E bboxOutput \in BBoxOutputs :
          /\ bboxOf' = [bboxOf EXCEPT ![CurFile] = Printed(bboxOutput)]
          /\ IF BBoxMatches(bboxOutput)
               THEN /\ infoLog' = infoLog \cup {<<"Match result: MATCHED", CurFile>>}
                    /\ pc' = "crop"
                    /\ UNCHANGED idx
               ELSE /\ NextPrFile
                    /\ UNCHANGED infoLog
          /\ NoThrow
  /\ UNCHANGED <<envVars, hasDiffs, imagesToUpload, deletedScreenshots,
                 exitOf, warnings, uploadVars, commentVars, outputs,
                 idleVars, canvasVars, gitVars, parseVars>>

\* the three crops, the composite and its queueing for upload
CropAndCombine ==
  /\ pc = "crop"
  /\ \E outcome \in {"ok", "identify failed", "convert failed"} :
       /\ calls' = calls \cup {<<"identify", CurFile>>}
                         \cup (IF outcome # "identify failed"
                                 THEN {<<"crop", CurFile>>} ELSE {})
                         \cup (IF outcome = "ok"
                                 THEN {<<"combine", CurFile>>} ELSE {})
       /\ IF outcome = "ok"
            THEN /\ \E bytes \in Bytes(OutputFmt(inputs.outputFormat)) :
                      imagesToUpload' =
                        Append(imagesToUpload,
                               Image(<<"diffsDir", CurFile>>, CurFile,
                                     "modified", bytes,
                                     OutputExt(inputs.outputFormat)))
                 /\ NextPrFile
                 /\ NoThrow
            ELSE /\ Throw(outcome)
                 /\ UNCHANGED <<idx, imagesToUpload>>
  /\ UNCHANGED <<envVars, hasDiffs, deletedScreenshots, exitOf, infoLog,
                 warnings, uploadVars, commentVars, outputs, idleVars, canvasVars, bboxOf, gitVars, parseVars>>

\* one iteration of `for (const file of basePngs)`
CheckDeleted ==
  /\ pc = "deleted"
  /\ idx <= Len(basePngs)
  /\ LET file == basePngs[idx] IN
       IF IsDeletedScreenshot(file)
         THEN /\ infoLog' = infoLog \cup {<<"Deleted screenshot", file>>}
              /\ hasDiffs' = TRUE
              /\ deletedScreenshots' = Append(deletedScreenshots, file)
              /\ \E bytes \in Bytes("png") :
                   imagesToUpload' =
                     Append(imagesToUpload,
                            Image(<<"baseDir", file>>, file, "deleted",
                                  bytes, ".png"))
         ELSE UNCHANGED <<infoLog, hasDiffs, deletedScreenshots, imagesToUpload>>
  /\ idx' = idx + 1
  /\ NoThrow
  /\ UNCHANGED <<envVars, pc, exitOf, calls, warnings, uploadVars,
                 commentVars, outputs, idleVars, canvasVars, bboxOf, gitVars, parseVars>>

\* core.setOutput('has-diffs', ...) and the decision to comment
SetHasDiffs ==
  /\ pc = "deleted"
  /\ idx > Len(basePngs)
  /\ outputs' = [outputs EXCEPT !.hasDiffs = ToStr(hasDiffs)]
  /\ pc' = IF ShouldComment
             THEN (IF Len(imagesToUpload) > 0 THEN "upload" ELSE "comment")
             ELSE "finish"
  /\ NoThrow
  /\ UNCHANGED <<envVars, idx, hasDiffs, imagesToUpload, deletedScreenshots,
                 exitOf, calls, infoLog, warnings, uploadVars, commentVars,
                 idleVars, canvasVars, bboxOf, gitVars, parseVars>>


\* ------------------------------------------------------------------------
\* uploadToR2
\* ------------------------------------------------------------------------
\* mutant: no deduplication, one group per image
GroupKeyPerImage(img) == <<img.hash, img.name, img.kind>>

\* imagesByHash: images are grouped by img.hash
GroupKey(img) == img.hash

Groups == {GroupKey(imagesToUpload[i]) : i \in DOMAIN imagesToUpload}
\* mutant: an upload writes its URL to every queued image
MembersAll(g) == DOMAIN imagesToUpload
Members(g) == {i \in DOMAIN imagesToUpload : GroupKey(imagesToUpload[i]) = g}
\* const firstImg = imgs[0]
FirstImg(g) == imagesToUpload[SetMin(Members(g))]

Settled(g) == tasks[g] \in {"fulfilled", "rejected"}
\* mutant: Promise.all, which rejects with the first rejection
AllSettledOrFirstRejected ==
  \/ \E g \in DOMAIN tasks : tasks[g] = "rejected"
  \/ \A g \in DOMAIN tasks : tasks[g] = "fulfilled"

\* await Promise.allSettled(...)
AllSettled == \A g \in DOMAIN tasks : Settled(g)
\* results.filter(r => r.status === 'rejected')
Failures == {g \in DOMAIN tasks : tasks[g] = "rejected"}
\* mutant: rejected uploads are not looked at
UploadsFailedIgnored == FALSE

\* if (failures.length > 0)
UploadsFailed == Cardinality(Failures) > 0

\* the map over imagesByHash.entries(): every upload promise is created and
\* runs up to its first await (fs.readFile)
UploadStart ==
  /\ pc = "upload"
  /\ tasks' = [g \in Groups |-> "reading"]
  /\ puts' = [k \in {imagesToUpload[i].hash : i \in DOMAIN imagesToUpload} |-> 0]
  /\ pc' = "uploading"
  /\ NoThrow
  /\ UNCHANGED <<envVars, idx, hasDiffs, imagesToUpload, deletedScreenshots,
                 exitOf, calls, infoLog, warnings, bucket, uploadError,
                 commentVars, outputs, idleVars, canvasVars, bboxOf, gitVars, parseVars>>

\* the file is read; s3Client.send(new PutObjectCommand({Key: hash, ...}))
UploadSend ==
  /\ pc = "uploading"
  /\ \E g \in DOMAIN tasks :
       /\ tasks[g] = "reading"
       /\ tasks' = [tasks EXCEPT ![g] = "sent"]
       /\ puts' = [puts EXCEPT ![FirstImg(g).hash] = @ + 1]
  /\ NoThrow
  /\ UNCHANGED <<envVars, pc, idx, hasDiffs, imagesToUpload,
                 deletedScreenshots, exitOf, calls, infoLog, warnings, bucket,
                 uploadError, commentVars, outputs, idleVars, canvasVars, bboxOf, gitVars, parseVars>>

\* the send settles: on success every image of the group gets the URL
UploadSettle ==
  /\ pc = "uploading"
  /\ \E g \in DOMAIN tasks :
       /\ tasks[g] = "sent"
       /\ \E stored \in BOOLEAN :
            IF stored
              THEN /\ tasks' = [tasks EXCEPT ![g] = "fulfilled"]
                   /\ bucket' = bucket \cup {FirstImg(g).hash}
                   /\ imagesToUpload' =
                        [i \in DOMAIN imagesToUpload |->
                           IF i \in Members(g)
                             THEN [imagesToUpload[i] EXCEPT
                                     !.url = PublicUrl(FirstImg(g).hash)]
                             ELSE imagesToUpload[i]]
              ELSE /\ tasks' = [tasks EXCEPT ![g] = "rejected"]
                   /\ UNCHANGED <<bucket, imagesToUpload>>
  /\ NoThrow
  /\ UNCHANGED <<envVars, pc, idx, hasDiffs, deletedScreenshots, exitOf,
                 calls, infoLog, warnings, puts, uploadError, commentVars,
                 outputs, idleVars, canvasVars, bboxOf, gitVars, parseVars>>

\* allSettled has resolved: throw when any upload was rejected
UploadJoin ==
  /\ pc = "uploading"
  /\ AllSettled
  /\ IF UploadsFailed
       THEN /\ uploadError' = <<Cardinality(Failures), Cardinality(DOMAIN tasks)>>
            /\ Throw("uploads failed")
       ELSE /\ pc' = "comment"
            /\ UNCHANGED uploadError
            /\ NoThrow
  /\ UNCHANGED <<envVars, idx, hasDiffs, imagesToUpload, deletedScreenshots,
                 exitOf, calls, infoLog, warnings, tasks, puts, bucket,
                 commentVars, outputs, idleVars, canvasVars, bboxOf, gitVars, parseVars>>

\* ------------------------------------------------------------------------
\* the comment
\* ------------------------------------------------------------------------
\* imagesToUpload.filter(...) rendered as <details> entries
Section(kind) ==
  LET s == SelectSeq(imagesToUpload, LAMBDA img : img.kind = kind)
  IN  [i \in 1..Len(s) |->
         [name |-> s[i].name, url |-> s[i].url, path |-> s[i].path]]

\* mutant: the New section is written before the Modified section
SectionOrderNewFirst == <<"new", "modified", "deleted">>

\* the order in which the sections are appended to the comment
SectionOrder == <<"modified", "new", "deleted">>

\* the parts of the body: each section only `if (....length > 0)`
CommentBlocks ==
  <<"heading">>
  \o SelectSeq(SectionOrder, LAMBDA kind : Len(Section(kind)) > 0)
  \o <<"footer">>

BuildComment ==
  [blocks   |-> CommentBlocks,
   modified |-> Section("modified"),
   new      |-> Section("new"),
   deleted  |-> Section("deleted")]

\* mutant: commentPosted is set whether or not the call was accepted
PostCommentOptimistic ==
  /\ pc = "comment"
  /\ commentCalls' = commentCalls + 1
  /\ \E accepted \in BOOLEAN :
       IF accepted
         THEN /\ comments' = Append(comments, BuildComment)
              /\ commentPosted' = TRUE
              /\ UNCHANGED warnings
         ELSE /\ warnings' = warnings \cup {"Failed to post PR comment"}
              /\ commentPosted' = TRUE
              /\ UNCHANGED comments
  /\ pc' = "finish"
  /\ NoThrow
  /\ UNCHANGED <<envVars, idx, hasDiffs, imagesToUpload, deletedScreenshots,
                 exitOf, calls, infoLog, uploadVars, outputs, idleVars, canvasVars, bboxOf, gitVars, parseVars>>

\* octokit.rest.issues.createComment in its try/catch
PostComment ==
  /\ pc = "comment"
  /\ commentCalls' = commentCalls + 1
  /\ \E accepted \in BOOLEAN :
       IF accepted
         THEN /\ comments' = Append(comments, BuildComment)
              /\ commentPosted' = TRUE
              /\ UNCHANGED warnings
         ELSE /\ warnings' = warnings \cup {"Failed to post PR comment"}
              /\ UNCHANGED <<comments, commentPosted>>
  /\ pc' = "finish"
  /\ NoThrow
  /\ UNCHANGED <<envVars, idx, hasDiffs, imagesToUpload, deletedScreenshots,
                 exitOf, calls, infoLog, uploadVars, outputs, idleVars, canvasVars, bboxOf, gitVars, parseVars>>

\* core.setOutput('comment-posted', ...) and the fail-on-changes switch
Finish ==
  /\ pc = "finish"
  /\ outputs' = [outputs EXCEPT !.commentPosted = ToStr(commentPosted)]
  /\ failedMsgs' = IF FailRequested
                     THEN Append(failedMsgs, <<"Visual changes detected">>)
                     ELSE failedMsgs
  /\ pc' = "done"
  /\ UNCHANGED <<envVars, idx, hasDiffs, imagesToUpload, deletedScreenshots,
                 exitOf, calls, infoLog, warnings, uploadVars, commentVars,
                 thrown, idleVars, canvasVars, bboxOf, gitVars, parseVars>>

Next ==
  \/ Start
  \/ CompareNew
  \/ CompareDims
  \/ RunOdiff
  \/ BoundingBox
  \/ CropAndCombine
  \/ CheckDeleted
  \/ SetHasDiffs
  \/ UploadStart
  \/ UploadSend
  \/ UploadSettle
  \/ UploadJoin
  \/ PostComment
  \/ Finish

Spec == Init /\ [][Next]_vars


\* ------------------------------------------------------------------------
\* Crop geometry (SpecCrop)
\* ------------------------------------------------------------------------
\* parseInt(core.getInput('crop-padding')) || 50
CropPaddingInput(raw) ==
  IF raw = Omitted \/ raw = 0 THEN DefaultCropPadding ELSE raw

\* parseInt(core.getInput('crop-min-height')) || 300
CropMinHeightInput(raw) ==
  IF raw = Omitted \/ raw = 0 THEN DefaultCropMinHeight ELSE raw

\* mutant: the padding moves the offset up without growing the height
CropCompareUnpaddedHeight(P, M, H, y, h) ==
  [finalY      |-> Max(0, y - P),
   finalHeight |-> Max(h, M)]
\* compare mode: finalHeight and finalY of cropGeometry
CropCompare(P, M, H, y, h) ==
  [finalY      |-> Max(0, y - P),
   finalHeight |-> Max(h + (P * 2), M)]

\* mutant: the minimum height is not applied
CropFusedNoMinHeight(P, M, H, y, h) ==
  LET yPad == Max(0, y - P)
      heightWithPadding == h + P * 2
      maxY == H - heightWithPadding
      finalY == Min(yPad, Max(0, maxY))
  IN  [finalY      |-> finalY,
       finalHeight |-> Min(heightWithPadding, H - finalY)]

\* fused run: finalY and finalHeight of cropSpec
CropFused(P, M, H, y, h) ==
  LET yPad == Max(0, y - P)
      heightWithPadding == Max(h + P * 2, M)
      maxY == H - heightWithPadding
      finalY == Min(yPad, Max(0, maxY))
  IN  [finalY      |-> finalY,
       finalHeight |-> Min(heightWithPadding, H - finalY)]

\* a changed screenshot: the configured padding and minimum height, the
\* image height and a bounding box (offset y, height h) inside the image
CropCases ==
  {c \in [variant : {"case"},
          P : {CropPaddingInput(r) : r \in {Omitted} \cup 0..MaxPad},
          M : {CropMinHeightInput(r) : r \in {Omitted} \cup 0..MaxMinHeight},
          H : 1..MaxHeight, y : 0..(MaxHeight - 1), h : 1..MaxHeight] :
     c.y + c.h <= c.H}

\* every variable of the compare run at rest
CompareIdle ==
  /\ pc = "idle"
  /\ isPR = FALSE
  /\ inputs = [mode |-> "compare", postComment |-> FALSE,
               failOnChanges |-> FALSE,
               outputFormat |-> "side-by-side"]
  /\ basePngs = <<>>
  /\ prPngs = <<>>
  /\ idx = 0
  /\ hasDiffs = FALSE
  /\ imagesToUpload = <<>>
  /\ deletedScreenshots = <<>>
  /\ exitOf = [n \in Names |-> -1]
  /\ calls = {}
  /\ infoLog = {}
  /\ warnings = {}
  /\ tasks = <<>>
  /\ puts = <<>>
  /\ bucket = {}
  /\ uploadError = <<>>
  /\ commentPosted = FALSE
  /\ commentCalls = 0
  /\ comments = <<>>
  /\ outputs = [hasDiffs |-> "unset", commentPosted |-> "unset"]
  /\ thrown = FALSE
  /\ failedMsgs = <<>>

InitCrop ==
  /\ CompareIdle
  /\ FusedIdle
  /\ cropIn \in CropCases
  /\ cropOut = NoCrop
  /\ CanvasIdle
  /\ CaptureIdle
  /\ GitIdle
  /\ ParseIdle

ComputeCropCompare ==
  /\ cropIn.variant = "case"
  /\ cropOut = NoCrop
  /\ cropOut' = [variant |-> "compare",
                 geom |-> CropCompare(cropIn.P, cropIn.M, cropIn.H, cropIn.y, cropIn.h)]
  /\ UNCHANGED <<compareVars, fusedVars, cropIn, canvasVars, bboxOf, gitVars, parseVars>>

ComputeCropFused ==
  /\ cropIn.variant = "case"
  /\ cropOut = NoCrop
  /\ cropOut' = [variant |-> "fused",
                 geom |-> CropFused(cropIn.P, cropIn.M, cropIn.H, cropIn.y, cropIn.h)]
  /\ UNCHANGED <<compareVars, fusedVars, cropIn, canvasVars, bboxOf, gitVars, parseVars>>

NextCrop ==
  \/ ComputeCropCompare
  \/ ComputeCropFused

SpecCrop == InitCrop /\ [][NextCrop]_vars


\* ------------------------------------------------------------------------
\* The fused run (SpecFused): src/src/index.ts
\* ------------------------------------------------------------------------
compareOnlyVars == <<deletedScreenshots, tasks, puts, bucket>>

FusedInputs ==
  [mode : {"fused"}, postComment : BOOLEAN, failOnChanges : BOOLEAN,
   commitScreenshots : BOOLEAN, useCiBranch : BOOLEAN, amendCommit : BOOLEAN]

\* the storage keys the CI branch may already hold
CiKeys == {StorageKey(b, ".png") : b \in Bytes("png")}

\* the states `git ls-remote` can find the remote CI branch in
CiRemotes ==
  [exists : {TRUE}, files : SUBSET CiKeys] \cup {[exists |-> FALSE, files |-> {}]}

FusedConstructed(universe) ==
  /\ pc = "f:start"
  /\ isPR \in BOOLEAN
  /\ inputs \in FusedInputs
  /\ \E B \in SUBSET universe : basePngs = SeqOf(B)
  /\ \E P \in SUBSET universe : prPngs = SeqOf(P)
  /\ idx = 0
  /\ hasDiffs = FALSE
  /\ imagesToUpload = <<>>
  /\ deletedScreenshots = <<>>
  /\ exitOf = [n \in Names |-> -1]
  /\ calls = {}
  /\ infoLog = {}
  /\ warnings = {}
  /\ tasks = <<>>
  /\ puts = <<>>
  /\ bucket = {}
  /\ uploadError = <<>>
  /\ commentPosted = FALSE
  /\ commentCalls = 0
  /\ comments = <<>>
  /\ outputs = [hasChanges |-> "unset", hasDiffs |-> "unset",
                screenshotsCommitted |-> "unset", commentPosted |-> "unset"]
  /\ thrown = FALSE
  /\ failedMsgs = <<>>
  /\ hasBase = FALSE
  /\ hasChanges = FALSE
  /\ screenshotsCommitted = FALSE
  /\ combinedFiles = <<>>
  /\ rewritten = {}
  /\ cwd = "GITHUB_WORKSPACE"
  \* the remote CI branch is first looked at by uploadToCiBranch
  /\ ciBranch = CiNotRead
  /\ gitLog = <<>>
  /\ CropIdle
  /\ CanvasIdle
  /\ CaptureIdle

InitFused == FusedConstructed(Names) /\ GitIdle /\ ParseIdle

\* if (!existsSync(baseImg))
FusedIsNew(file) == ~Includes(basePngs, file)

\* if (exitCode === 22)
FusedIsChanged(exitCode) == exitCode = PixelDiffExit

\* bbox.match(/(\d+)x(\d+)\+(\d+)\+(\d+)/)
FusedBBoxMatches(out) == out = "WxH+X+Y"

\* if (hasDiffs && inputs.postComment)
FusedShouldComment == hasDiffs /\ inputs.postComment

\* if (inputs.useCiBranch && imagesToUpload.length > 0)
FusedShouldUpload == inputs.useCiBranch /\ Len(imagesToUpload) > 0

\* if (hasChanges && inputs.commitScreenshots)
\* mutant: the stage is entered whenever screenshots are to be committed
FusedShouldCommitAlways == inputs.commitScreenshots
FusedShouldCommit == hasChanges /\ inputs.commitScreenshots

\* if (inputs.failOnChanges && hasDiffs)
FusedFailRequested == inputs.failOnChanges /\ hasDiffs

\* https://raw.githubusercontent.com/<owner>/<repo>/<ciBranchName>/<filename>
RawUrl(key) == <<"raw.githubusercontent.com", key>>

FusedNextFile ==
  IF idx < Len(prPngs)
    THEN idx' = idx + 1 /\ pc' = "f:compare"
    ELSE idx' = idx /\ pc' = "f:status"

\* getInputs, the pull-request check, chdir and npm ci
FusedStart ==
  /\ pc = "f:start"
  /\ \E outcome \in {"ok", "Input required and not supplied", "npm ci failed"} :
       IF outcome = "Input required and not supplied"
         THEN /\ Throw(outcome)
              /\ UNCHANGED <<warnings, cwd>>
         ELSE IF ~InPullRequest
           THEN /\ warnings' = warnings \cup {"This action is designed to run on pull requests"}
                /\ pc' = "done"
                /\ UNCHANGED cwd
                /\ NoThrow
           ELSE /\ cwd' = "workingDirectory"
                /\ UNCHANGED warnings
                /\ IF outcome = "npm ci failed"
                     THEN Throw(outcome)
                     ELSE pc' = "f:base" /\ NoThrow
  /\ UNCHANGED <<envVars, idx, hasDiffs, imagesToUpload, exitOf, calls,
                 infoLog, uploadError, commentVars, outputs, compareOnlyVars,
                 hasBase, hasChanges, screenshotsCommitted, combinedFiles,
                 rewritten, ciBranch, gitLog, cropVars, canvasVars, bboxOf, gitVars, parseVars>>

\* Step 2: the base screenshots, in its try/catch
FusedFetchBase ==
  /\ pc = "f:base"
  /\ \E outcome \in {"ok", "git fetch failed", "no directory in base branch",
                     "directory missing after checkout"} :
       /\ hasBase' = (outcome = "ok")
       /\ warnings' = IF outcome = "git fetch failed"
                        THEN warnings \cup {"Failed to fetch base screenshots"}
                        ELSE warnings
  /\ pc' = "f:test"
  /\ NoThrow
  /\ UNCHANGED <<envVars, idx, hasDiffs, imagesToUpload, exitOf, calls,
                 infoLog, uploadError, commentVars, outputs, compareOnlyVars,
                 hasChanges, screenshotsCommitted, combinedFiles, rewritten,
                 cwd, ciBranch, gitLog, cropVars, canvasVars, bboxOf, gitVars, parseVars>>

\* Step 3: the test command; then `if (hasBase)` and the readdir of Step 4
FusedRunTests ==
  /\ pc = "f:test"
  /\ \E passed \in BOOLEAN :
       IF ~passed
         THEN Throw("test command failed") /\ UNCHANGED idx
         ELSE /\ NoThrow
              /\ IF hasBase /\ Len(prPngs) > 0
                   THEN pc' = "f:compare" /\ idx' = 1
                   ELSE pc' = "f:status" /\ UNCHANGED idx
  /\ UNCHANGED <<envVars, hasDiffs, imagesToUpload, exitOf, calls, infoLog,
                 warnings, uploadError, commentVars, outputs, compareOnlyVars,
                 fusedVars, cropVars, canvasVars, bboxOf, gitVars, parseVars>>

\* a screenshot without a base image: logged and skipped
FusedCompareNew ==
  /\ pc = "f:compare"
  /\ FusedIsNew(CurFile)
  /\ infoLog' = infoLog \cup {<<"New screenshot detected", CurFile>>}
  /\ FusedNextFile
  /\ NoThrow
  /\ UNCHANGED <<envVars, hasDiffs, imagesToUpload, exitOf, calls, warnings,
                 uploadError, commentVars, outputs, compareOnlyVars,
                 fusedVars, cropVars, canvasVars, bboxOf, gitVars, parseVars>>

\* if (baseDims.width !== newDims.width || baseDims.height !== newDims.height)
FusedNeedsExtent(baseDims, newDims) ==
  baseDims.width # newDims.width \/ baseDims.height # newDims.height

\* mogrify -gravity NorthWest -extent `${maxW}x${maxH}` on both files
FusedCanvas(baseDims, newDims) ==
  LET maxW == Max(baseDims.width, newDims.width)
      maxH == Max(baseDims.height, newDims.height)
  IN  IF FusedNeedsExtent(baseDims, newDims)
        THEN [baseDims |-> baseDims, newDims |-> newDims,
              base |-> [width |-> maxW, height |-> maxH],
              new  |-> [width |-> maxW, height |-> maxH],
              anchor |-> "northwest"]
        ELSE [baseDims |-> baseDims, newDims |-> newDims,
              base |-> baseDims, new |-> newDims, anchor |-> "none"]

\* getImageDimensions of both images; mogrify -extent rewrites both in place
FusedCompareDims ==
  /\ pc = "f:compare"
  /\ ~FusedIsNew(CurFile)
  /\ \E baseDims, newDims \in Dims,
        outcome \in {"ok", "identify failed", "mogrify failed"} :
       LET extend == outcome # "identify failed" /\ FusedNeedsExtent(baseDims, newDims)
       IN  /\ outcome = "mogrify failed" => extend
           /\ calls' = calls \cup {<<"identify", CurFile>>}
                             \cup (IF extend THEN {<<"extent", CurFile>>} ELSE {})
           /\ infoLog' = IF extend
                           THEN infoLog \cup {<<"Dimension mismatch", CurFile>>}
                           ELSE infoLog
           /\ rewritten' = IF extend /\ outcome = "ok"
                             THEN rewritten \cup {CurFile} ELSE rewritten
           /\ IF outcome = "ok"
                THEN /\ canvas' = OnDisk(FusedCanvas(baseDims, newDims))
                     /\ pc' = "f:odiff"
                     /\ NoThrow
                ELSE /\ canvas' = NoCanvas
                     /\ Throw(outcome)
  /\ UNCHANGED <<envVars, idx, hasDiffs, imagesToUpload, exitOf,
                 warnings, uploadError, commentVars, outputs, compareOnlyVars,
                 hasBase, hasChanges, screenshotsCommitted, combinedFiles,
                 cwd, ciBranch, gitLog, cropVars, mismatched, bboxOf, gitVars, parseVars>>

\* odiff base new diff --threshold t, { ignoreReturnCode: true }
FusedRunOdiff ==
  /\ pc = "f:odiff"
  /\ calls' = calls \cup {<<"odiff", CurFile>>}
  /\ mismatched' = IF canvas.base # canvas.new
                      THEN mismatched \cup {CurFile} ELSE mismatched
  /\ canvas' = NoCanvas
  /\ \E exitCode \in ExitCodes :
       /\ exitOf' = [exitOf EXCEPT ![CurFile] = exitCode]
       /\ IF FusedIsChanged(exitCode)
            THEN /\ infoLog' = infoLog \cup {<<"Visual changes detected", CurFile>>}
                 /\ hasDiffs' = TRUE
                 /\ pc' = "f:bbox"
                 /\ UNCHANGED idx
            ELSE /\ infoLog' = IF exitCode = IdenticalExit
                                 THEN infoLog \cup {<<"No visual changes", CurFile>>}
                                 ELSE infoLog
                 /\ FusedNextFile
                 /\ UNCHANGED hasDiffs
  /\ NoThrow
  /\ UNCHANGED <<envVars, imagesToUpload, warnings, uploadError, commentVars,
                 outputs, compareOnlyVars, fusedVars, cropVars, bboxOf, gitVars, parseVars>>

\* the diff mask and its bounding box
FusedBoundingBox ==
  /\ pc = "f:bbox"
  /\ calls' = calls \cup {<<"odiff-mask", CurFile>>, <<"bbox", CurFile>>}
  /\ \/ /\ Throw("convert failed")
        /\ UNCHANGED <<idx, bboxOf>>
     \/ \E bboxOutput \in BBoxOutputs :
          /\ bboxOf' = [bboxOf EXCEPT ![CurFile] = Printed(bboxOutput)]
          /\ IF FusedBBoxMatches(bboxOutput)
               THEN pc' = "f:crop" /\ UNCHANGED idx
               ELSE FusedNextFile
          /\ NoThrow
  /\ UNCHANGED <<envVars, hasDiffs, imagesToUpload, exitOf, infoLog, warnings,
                 uploadError, commentVars, outputs, compareOnlyVars,
                 fusedVars, cropVars, canvasVars, gitVars, parseVars>>

\* the three crops and <name>-combined.png
FusedCropAndCombine ==
  /\ pc = "f:crop"
  /\ \E outcome \in {"ok", "identify failed", "convert failed"} :
       /\ calls' = calls \cup {<<"identify", CurFile>>}
                         \cup (IF outcome # "identify failed"
                                 THEN {<<"crop", CurFile>>} ELSE {})
                         \cup (IF outcome = "ok"
                                 THEN {<<"combine", CurFile>>} ELSE {})
       /\ IF outcome = "ok"
            THEN /\ combinedFiles' = Append(combinedFiles, CurFile)
                 /\ FusedNextFile
                 /\ NoThrow
            ELSE /\ Throw(outcome)
                 /\ UNCHANGED <<idx, combinedFiles>>
  /\ UNCHANGED <<envVars, hasDiffs, imagesToUpload, exitOf, infoLog, warnings,
                 uploadError, commentVars, outputs, compareOnlyVars, hasBase,
                 hasChanges, screenshotsCommitted, rewritten, cwd, ciBranch,
                 gitLog, cropVars, canvasVars, bboxOf, gitVars, parseVars>>

\* Step 5: git status --porcelain, in its try/catch
FusedGitStatus ==
  /\ pc = "f:status"
  /\ \E outcome \in {"changes", "clean", "git status failed"} :
       /\ hasChanges' = (outcome = "changes")
       /\ warnings' = IF outcome = "git status failed"
                        THEN warnings \cup {"Failed to check for changes"}
                        ELSE warnings
  /\ pc' = IF FusedShouldComment THEN "f:comment" ELSE "f:commit"
  /\ NoThrow
  /\ UNCHANGED <<envVars, idx, hasDiffs, imagesToUpload, exitOf, calls,
                 infoLog, uploadError, commentVars, outputs, compareOnlyVars,
                 hasBase, screenshotsCommitted, combinedFiles, rewritten, cwd,
                 ciBranch, gitLog, cropVars, canvasVars, bboxOf, gitVars, parseVars>>

\* Step 6: the comment body; with use-ci-branch each combined file is hashed
\* and queued with its raw URL
FusedBuildComment ==
  /\ pc = "f:comment"
  /\ IF inputs.useCiBranch
       THEN \E bs \in [1..Len(combinedFiles) -> Bytes("png")] :
              imagesToUpload' =
                [i \in 1..Len(combinedFiles) |->
                   [Image(<<"diffsDir", combinedFiles[i]>>, combinedFiles[i],
                          "modified", bs[i], ".png")
                      EXCEPT !.url = RawUrl(StorageKey(bs[i], ".png"))]]
       ELSE UNCHANGED imagesToUpload
  /\ pc' = IF inputs.useCiBranch /\ Len(combinedFiles) > 0
             THEN "f:ciupload" ELSE "f:post"
  /\ NoThrow
  /\ UNCHANGED <<envVars, idx, hasDiffs, exitOf, calls, infoLog, warnings,
                 uploadError, commentVars, outputs, compareOnlyVars,
                 fusedVars, cropVars, canvasVars, bboxOf, gitVars, parseVars>>

\* uploadToCiBranch with its finally
FusedUploadCi ==
  /\ pc = "f:ciupload"
  /\ FusedShouldUpload
  /\ LET keys == {imagesToUpload[i].hash : i \in DOMAIN imagesToUpload} IN
     \E remote \in CiRemotes, lsRemoteExit \in {0, 128}, commandFails \in BOOLEAN :
       LET error ==
             IF commandFails THEN "git command failed"
             ELSE IF lsRemoteExit = 0 /\ ~remote.exists THEN "git fetch failed"
             ELSE IF lsRemoteExit = 0 /\ keys \subseteq remote.files
               THEN "nothing to commit"
             ELSE IF lsRemoteExit # 0 /\ remote.exists THEN "git push rejected"
             ELSE "none"
       IN  IF error = "none"
             THEN /\ ciBranch' = [exists |-> TRUE, files |-> remote.files \cup keys]
                  /\ pc' = "f:post"
                  /\ UNCHANGED uploadError
                  /\ NoThrow
             ELSE /\ uploadError' = <<error>>
                  /\ Throw(error)
                  /\ ciBranch' = remote
  /\ cwd' = "/"
  /\ UNCHANGED <<envVars, idx, hasDiffs, imagesToUpload, exitOf, calls,
                 infoLog, warnings, commentVars, outputs, compareOnlyVars,
                 hasBase, hasChanges, screenshotsCommitted, combinedFiles,
                 rewritten, gitLog, cropVars, canvasVars, bboxOf, gitVars, parseVars>>

\* the <details> entries of the fused comment
FusedComment ==
  [blocks   |-> <<"heading", "details", "footer">>,
   modified |-> [i \in 1..Len(combinedFiles) |->
                   [name |-> combinedFiles[i],
                    url  |-> IF inputs.useCiBranch
                               THEN imagesToUpload[i].url ELSE NoUrl,
                    path |-> <<"diffsDir", combinedFiles[i]>>]],
   new      |-> <<>>,
   deleted  |-> <<>>]

\* octokit.rest.issues.createComment in its try/catch
FusedPostComment ==
  /\ pc = "f:post"
  /\ commentCalls' = commentCalls + 1
  /\ \E accepted \in BOOLEAN :
       IF accepted
         THEN /\ comments' = Append(comments, FusedComment)
              /\ commentPosted' = TRUE
              /\ UNCHANGED warnings
         ELSE /\ warnings' = warnings \cup {"Failed to post PR comment"}
              /\ UNCHANGED <<comments, commentPosted>>
  /\ pc' = "f:commit"
  /\ NoThrow
  /\ UNCHANGED <<envVars, idx, hasDiffs, imagesToUpload, exitOf, calls,
                 infoLog, uploadError, outputs, compareOnlyVars, fusedVars,
                 cropVars, canvasVars, bboxOf, gitVars, parseVars>>

\* mutant: the push comes before the commit
CommitCommandsPushFirst(amend) ==
  <<"rm -rf diffs", "git config user.email", "git config user.name",
    "git stash push", "git fetch", "git rebase", "git stash pop", "git add",
    "git push --force-with-lease">>
  \o (IF amend
        THEN <<"git log %B", "git log author", "git commit --amend">>
        ELSE <<"git commit">>)
\* the commands of Step 7 in the order the code issues them
CommitCommands(amend) ==
  <<"rm -rf diffs", "git config user.email", "git config user.name",
    "git stash push", "git fetch", "git rebase", "git stash pop", "git add">>
  \o (IF amend
        THEN <<"git log %B", "git log author", "git commit --amend">>
        ELSE <<"git commit">>)
  \o <<"git push --force-with-lease">>

\* Step 7 in its try/catch: the first n commands succeed, the next one throws
FusedCommit ==
  /\ pc = "f:commit"
  /\ IF FusedShouldCommit
       THEN LET cmds == CommitCommands(inputs.amendCommit) IN
            \E n \in 0..Len(cmds) :
              \* outside the repository the first git command fails
              /\ cwd # "workingDirectory" => n <= 1
              /\ gitLog' = SubSeq(cmds, 1, Min(n + 1, Len(cmds)))
              /\ screenshotsCommitted' = (n = Len(cmds))
              /\ warnings' = IF n < Len(cmds)
                               THEN warnings \cup {"Failed to commit screenshots"}
                               ELSE warnings
       ELSE UNCHANGED <<gitLog, screenshotsCommitted, warnings>>
  /\ pc' = "f:outputs"
  /\ NoThrow
  /\ UNCHANGED <<envVars, idx, hasDiffs, imagesToUpload, exitOf, calls,
                 infoLog, uploadError, commentVars, outputs, compareOnlyVars,
                 hasBase, hasChanges, combinedFiles, rewritten, cwd, ciBranch,
                 cropVars, canvasVars, bboxOf, gitVars, parseVars>>

\* the four outputs and the fail-on-changes switch
FusedSetOutputs ==
  /\ pc = "f:outputs"
  /\ outputs' = [hasChanges |-> ToStr(hasChanges), hasDiffs |-> ToStr(hasDiffs),
                 screenshotsCommitted |-> ToStr(screenshotsCommitted),
                 commentPosted |-> ToStr(commentPosted)]
  /\ failedMsgs' = IF FusedFailRequested
                     THEN Append(failedMsgs, <<"Visual changes detected">>)
                     ELSE failedMsgs
  /\ pc' = "done"
  /\ UNCHANGED <<envVars, idx, hasDiffs, imagesToUpload, exitOf, calls,
                 infoLog, warnings, uploadError, commentVars, thrown,
                 compareOnlyVars, fusedVars, cropVars, canvasVars, bboxOf, gitVars, parseVars>>

NextFused ==
  \/ FusedStart
  \/ FusedFetchBase
  \/ FusedRunTests
  \/ FusedCompareNew
  \/ FusedCompareDims
  \/ FusedRunOdiff
  \/ FusedBoundingBox
  \/ FusedCropAndCombine
  \/ FusedGitStatus
  \/ FusedBuildComment
  \/ FusedUploadCi
  \/ FusedPostComment
  \/ FusedCommit
  \/ FusedSetOutputs

SpecFused == InitFused /\ [][NextFused]_vars

\* ------------------------------------------------------------------------
\* Step 7 command by command, with the pull-request head branch on origin,
\* its remote-tracking ref and the checked-out branch, while other parties
\* push to the same branch
\* ------------------------------------------------------------------------
PrCommit == [author |-> "pr", n |-> 0, amended |-> FALSE]
OtherCommit(k) == [author |-> "other", n |-> k, amended |-> FALSE]
\* git commit -m 'Update visual regression screenshots'
ScreenshotsCommit == [author |-> "github-actions[bot]", n |-> 0, amended |-> FALSE]
\* git commit --amend --no-edit --author=<original author>
Amend(c) == [c EXCEPT !.amended = TRUE]

\* the workflow checked the head branch out before the action started
InitCommit ==
  /\ FusedConstructed(1..MaxCommitNames)
  /\ remoteHead = <<PrCommit>>
  /\ tracking = <<PrCommit>>
  /\ localHead = <<PrCommit>>
  /\ otherPushes = 0
  /\ ParseIdle

\* git rebase origin/<headRef>: the local commits that upstream lacks are
\* replayed on top of upstream
Rebase(local, upstream) ==
  upstream \o SelectSeq(local, LAMBDA c : c \notin Range(upstream))

\* mutant: a plain --force
LeaseHoldsForce(remote, expected) == TRUE
\* --force-with-lease: the remote ref must still be what the remote-tracking
\* ref says
LeaseHolds(remote, expected) == remote = expected

\* if (hasChanges && inputs.commitScreenshots) is false
FusedCommitSkip ==
  /\ pc = "f:commit"
  /\ ~FusedShouldCommit
  /\ pc' = "f:outputs"
  /\ NoThrow
  /\ UNCHANGED <<envVars, idx, hasDiffs, imagesToUpload, exitOf, calls,
                 infoLog, warnings, uploadError, commentVars, outputs,
                 compareOnlyVars, hasBase, hasChanges, screenshotsCommitted,
                 combinedFiles, rewritten, cwd, ciBranch, gitLog, cropVars,
                 canvasVars, bboxOf, gitVars, parseVars>>

\* what a successful command does to the branches
CommitEffect(cmd) ==
  CASE cmd = "git fetch" ->
         /\ tracking' = remoteHead
         /\ UNCHANGED <<remoteHead, localHead>>
    [] cmd = "git rebase" ->
         /\ localHead' = Rebase(localHead, tracking)
         /\ UNCHANGED <<remoteHead, tracking>>
    [] cmd = "git commit" ->
         /\ localHead' = Append(localHead, ScreenshotsCommit)
         /\ UNCHANGED <<remoteHead, tracking>>
    [] cmd = "git commit --amend" ->
         /\ localHead' = [localHead EXCEPT ![Len(localHead)] = Amend(@)]
         /\ UNCHANGED <<remoteHead, tracking>>
    [] cmd = "git push --force-with-lease" ->
         /\ remoteHead' = localHead
         /\ tracking' = localHead
         /\ UNCHANGED localHead
    [] OTHER -> UNCHANGED <<remoteHead, tracking, localHead>>

\* one exec.exec of the try block; a failing command ends the block in its
\* catch, the push succeeding sets screenshotsCommitted
FusedCommitStep ==
  /\ pc = "f:commit"
  /\ FusedShouldCommit
  /\ LET cmds == CommitCommands(inputs.amendCommit)
         k == Len(gitLog) + 1
         cmd == cmds[k]
     IN /\ gitLog' = Append(gitLog, cmd)
        /\ \E ok \in BOOLEAN :
             \* outside the repository the first git command fails
             /\ (cwd # "workingDirectory" /\ cmd # "rm -rf diffs") => ~ok
             /\ (cmd = "git push --force-with-lease"
                   /\ ~LeaseHolds(remoteHead, tracking)) => ~ok
             /\ IF ok
                  THEN /\ CommitEffect(cmd)
                       /\ screenshotsCommitted' = (k = Len(cmds))
                       /\ pc' = IF k = Len(cmds) THEN "f:outputs" ELSE pc
                       /\ UNCHANGED warnings
                  ELSE /\ warnings' =
                            warnings \cup {"Failed to commit screenshots"}
                       /\ pc' = "f:outputs"
                       /\ UNCHANGED <<screenshotsCommitted, remoteHead,
                                      tracking, localHead>>
  /\ NoThrow
  /\ UNCHANGED <<envVars, idx, hasDiffs, imagesToUpload, exitOf, calls,
                 infoLog, uploadError, commentVars, outputs, compareOnlyVars,
                 hasBase, hasChanges, combinedFiles, rewritten, cwd, ciBranch,
                 cropVars, canvasVars, bboxOf, otherPushes, parseVars>>

\* somebody else pushes a commit to the head branch before Step 7 is over
OtherPush ==
  /\ pc \notin {"f:outputs", "done"}
  /\ otherPushes < MaxOtherPushes
  /\ otherPushes' = otherPushes + 1
  /\ remoteHead' = Append(remoteHead, OtherCommit(otherPushes + 1))
  /\ UNCHANGED <<compareVars, fusedVars, cropVars, canvasVars, bboxOf,
                 tracking, localHead, parseVars>>

NextCommit ==
  \/ FusedStart
  \/ FusedFetchBase
  \/ FusedRunTests
  \/ FusedCompareNew
  \/ FusedCompareDims
  \/ FusedRunOdiff
  \/ FusedBoundingBox
  \/ FusedCropAndCombine
  \/ FusedGitStatus
  \/ FusedBuildComment
  \/ FusedUploadCi
  \/ FusedPostComment
  \/ FusedCommitSkip
  \/ FusedCommitStep
  \/ FusedSetOutputs
  \/ OtherPush

SpecCommit == InitCommit /\ [][NextCommit]_vars

\* ------------------------------------------------------------------------
\* getInputs: the diff-threshold input and the --threshold arguments
\* ------------------------------------------------------------------------
ThresholdChars == {"0", "1", "5", ".", "x"}
RECURSIVE TextsUpTo(_, _)
TextsUpTo(chars, n) ==
  IF n = 0
    THEN {<<>>}
    ELSE LET shorter == TextsUpTo(chars, n - 1)
         IN shorter \cup {Append(t, c) : t \in shorter, c \in chars}

RECURSIVE Pow10(_)
Pow10(n) == IF n = 0 THEN 1 ELSE 10 * Pow10(n - 1)
\* numbers are kept as multiples of 10^-MaxThresholdLen
Scale == Pow10(MaxThresholdLen)
\* not a number; no text of the alphabet denotes a negative one
NaN == -1

IsDigit(c) == c \in {"0", "1", "5"}
DigitVal(c) == CASE c = "0" -> 0 [] c = "1" -> 1 [] c = "5" -> 5
RECURSIVE DigitsPrefixLen(_)
DigitsPrefixLen(t) ==
  IF t # <<>> /\ IsDigit(Head(t)) THEN 1 + DigitsPrefixLen(Tail(t)) ELSE 0
RECURSIVE IntValue(_)
IntValue(digits) ==
  IF digits = <<>>
    THEN 0
    ELSE 10 * IntValue(SubSeq(digits, 1, Len(digits) - 1))
           + DigitVal(digits[Len(digits)])

\* parseFloat: the longest prefix of the form digits [. digits] or . digits
ParseFloat(t) ==
  LET n == DigitsPrefixLen(t)
      rest == SubSeq(t, n + 1, Len(t))
      m == IF rest # <<>> /\ Head(rest) = "."
             THEN DigitsPrefixLen(Tail(rest))
             ELSE 0
  IN IF n = 0 /\ m = 0
       THEN NaN
       ELSE IntValue(SubSeq(t, 1, n)) * Scale
              + IntValue(SubSeq(rest, 2, m + 1)) * Pow10(MaxThresholdLen - m)

\* the literal 0.1
DefaultDiffThreshold == Scale \div 10

\* mutant: only a value that is not a number falls back to the default
DiffThresholdNullish(t) ==
  IF ParseFloat(t) = NaN THEN DefaultDiffThreshold ELSE ParseFloat(t)
\* parseFloat(core.getInput('diff-threshold')) || 0.1
DiffThreshold(t) ==
  IF ParseFloat(t) = NaN \/ ParseFloat(t) = 0
    THEN DefaultDiffThreshold
    ELSE ParseFloat(t)

InitThreshold ==
  /\ CompareIdle
  /\ FusedIdle
  /\ CropIdle
  /\ CanvasIdle
  /\ CaptureIdle
  /\ GitIdle
  \* what core.getInput('diff-threshold') may return; <<>> is the omitted input
  /\ thresholdInput \in TextsUpTo(ThresholdChars, MaxThresholdLen)
  /\ thresholdArgs = <<>>
  /\ bboxText = <<>>
  /\ bboxResult = NoResult

\* odiff base new diff --threshold <inputs.diffThreshold>
OdiffThreshold ==
  /\ thresholdArgs = <<>>
  /\ thresholdArgs' = << <<"odiff", DiffThreshold(thresholdInput)>> >>
  /\ UNCHANGED <<compareVars, fusedVars, cropVars, canvasVars, bboxOf, gitVars,
                 thresholdInput, bboxText, bboxResult>>

\* odiff base new mask --diff-mask --threshold <inputs.diffThreshold>
OdiffMaskThreshold ==
  /\ Len(thresholdArgs) = 1
  /\ thresholdArgs' =
       Append(thresholdArgs, <<"odiff --diff-mask", DiffThreshold(thresholdInput)>>)
  /\ UNCHANGED <<compareVars, fusedVars, cropVars, canvasVars, bboxOf, gitVars,
                 thresholdInput, bboxText, bboxResult>>

NextThreshold ==
  \/ OdiffThreshold
  \/ OdiffMaskThreshold

SpecThreshold == InitThreshold /\ [][NextThreshold]_vars

\* ------------------------------------------------------------------------
\* The bounding-box text of `convert -format '%wx%h+%X+%Y' info:` and the
\* two regular expressions that read it
\* ------------------------------------------------------------------------
Digits == {"0", "1", "5"}
RECURSIVE NumeralsUpTo(_)
NumeralsUpTo(n) ==
  IF n = 1
    THEN {<<d>> : d \in Digits}
    ELSE LET shorter == NumeralsUpTo(n - 1)
         IN shorter \cup {Append(t, d) : t \in shorter, d \in Digits}

\* the ways an offset is printed: +X, ++X (signed escape after the literal
\* plus) and +-X
BBoxForms == {"plain", "doubled", "negative"}
OffsetText(form, digits) ==
  CASE form = "plain"    -> <<"+">> \o digits
    [] form = "doubled"  -> <<"+", "+">> \o digits
    [] form = "negative" -> <<"+", "-">> \o digits
BBoxFormat(form, w, h, x, y) ==
  w \o <<"x">> \o h \o OffsetText(form, x) \o OffsetText(form, y)

\* /(\d+)x(\d+)\+?\+?(-?\d+)\+?\+?(-?\d+)/
ComparePattern ==
  <<"digits", "x", "digits", "+?", "+?", "signed", "+?", "+?", "signed">>
\* /(\d+)x(\d+)\+(\d+)\+(\d+)/
FusedPattern == <<"digits", "x", "digits", "+", "digits", "+", "digits">>

NoMatch == [ok |-> FALSE, caps |-> <<>>]
CharAt(t, pos) == IF pos \in DOMAIN t THEN t[pos] ELSE "end"
DigitRun(t, pos) ==
  IF pos \in DOMAIN t THEN DigitsPrefixLen(SubSeq(t, pos, Len(t))) ELSE 0

\* a backtracking matcher: quantifiers are greedy, the first alternative that
\* lets the rest of the pattern match wins; a capture is read as a number
RECURSIVE MatchFrom(_, _, _, _)
RECURSIVE TryDigits(_, _, _, _, _, _)
TryDigits(t, pos, len, pat, k, sign) ==
  IF len = 0
    THEN NoMatch
    ELSE LET r == MatchFrom(t, pos + len, pat, k + 1)
         IN IF r.ok
              THEN [ok |-> TRUE,
                    caps |-> <<sign * IntValue(SubSeq(t, pos, pos + len - 1))>>
                               \o r.caps]
              ELSE TryDigits(t, pos, len - 1, pat, k, sign)
MatchFrom(t, pos, pat, k) ==
  IF k > Len(pat)
    THEN [ok |-> TRUE, caps |-> <<>>]
    ELSE CASE pat[k] = "digits" ->
                TryDigits(t, pos, DigitRun(t, pos), pat, k, 1)
           [] pat[k] = "signed" ->
                IF CharAt(t, pos) = "-"
                  THEN TryDigits(t, pos + 1, DigitRun(t, pos + 1), pat, k, -1)
                  ELSE TryDigits(t, pos, DigitRun(t, pos), pat, k, 1)
           [] pat[k] = "+?" ->
                LET taken == IF CharAt(t, pos) = "+"
                               THEN MatchFrom(t, pos + 1, pat, k + 1)
                               ELSE NoMatch
                IN IF taken.ok THEN taken ELSE MatchFrom(t, pos, pat, k + 1)
           [] OTHER ->
                IF CharAt(t, pos) = pat[k]
                  THEN MatchFrom(t, pos + 1, pat, k + 1)
                  ELSE NoMatch

\* String.prototype.match without the g flag: the leftmost match
RECURSIVE SearchFrom(_, _, _)
SearchFrom(t, start, pat) ==
  IF start > Len(t) + 1
    THEN NoMatch
    ELSE LET r == MatchFrom(t, start, pat, 1)
         IN IF r.ok THEN r ELSE SearchFrom(t, start + 1, pat)

InitBBox ==
  /\ CompareIdle
  /\ FusedIdle
  /\ CropIdle
  /\ CanvasIdle
  /\ CaptureIdle
  /\ GitIdle
  /\ thresholdInput = <<>>
  /\ thresholdArgs = <<>>
  /\ \E form \in BBoxForms, w, h, x, y \in NumeralsUpTo(MaxBBoxDigits) :
       bboxText = [form |-> form, w |-> w, h |-> h, x |-> x, y |-> y,
                   text |-> BBoxFormat(form, w, h, x, y)]
  /\ bboxResult = NoResult

\* bboxOutput.match(...) in runCompare
ParseBBoxCompare ==
  /\ bboxResult = NoResult
  /\ bboxResult' = [variant |-> "compare",
                    match |-> SearchFrom(bboxText.text, 1, ComparePattern)]
  /\ UNCHANGED <<compareVars, fusedVars, cropVars, canvasVars, bboxOf, gitVars,
                 thresholdInput, thresholdArgs, bboxText>>

\* bbox.match(...) in the fused run
ParseBBoxFused ==
  /\ bboxResult = NoResult
  /\ bboxResult' = [variant |-> "fused",
                    match |-> SearchFrom(bboxText.text, 1, FusedPattern)]
  /\ UNCHANGED <<compareVars, fusedVars, cropVars, canvasVars, bboxOf, gitVars,
                 thresholdInput, thresholdArgs, bboxText>>

NextBBox ==
  \/ ParseBBoxCompare
  \/ ParseBBoxFused

SpecBBox == InitBBox /\ [][NextBBox]_vars

\* ------------------------------------------------------------------------
\* Both pipelines: a run of either variant
\* ------------------------------------------------------------------------
InitRuns == Init \/ InitFused

NextRuns ==
  \/ Start
  \/ CompareNew
  \/ CompareDims
  \/ RunOdiff
  \/ BoundingBox
  \/ CropAndCombine
  \/ CheckDeleted
  \/ SetHasDiffs
  \/ UploadStart
  \/ UploadSend
  \/ UploadSettle
  \/ UploadJoin
  \/ PostComment
  \/ Finish
  \/ FusedStart
  \/ FusedFetchBase
  \/ FusedRunTests
  \/ FusedCompareNew
  \/ FusedCompareDims
  \/ FusedRunOdiff
  \/ FusedBoundingBox
  \/ FusedCropAndCombine
  \/ FusedGitStatus
  \/ FusedBuildComment
  \/ FusedUploadCi
  \/ FusedPostComment
  \/ FusedCommit
  \/ FusedSetOutputs

SpecRuns == InitRuns /\ [][NextRuns]_vars

\* ------------------------------------------------------------------------
\* Capture mode (SpecCapture): run -> runCapture
\* ------------------------------------------------------------------------
Exts == {".png", ".txt"}
\* the entries a directory listing can hold
DirEntries == [name : Names, ext : Exts]

InitCapture ==
  /\ pc = "c:start"
  /\ isPR \in BOOLEAN
  /\ inputs \in [mode : {"capture"}, installDeps : BOOLEAN]
  /\ basePngs = <<>>
  /\ prPngs = <<>>
  /\ captureDir \in {NoDir} \cup [exists : {TRUE}, files : SUBSET DirEntries]
  /\ idx = 0
  /\ hasDiffs = FALSE
  /\ imagesToUpload = <<>>
  /\ deletedScreenshots = <<>>
  /\ exitOf = [n \in Names |-> -1]
  /\ calls = {}
  /\ infoLog = {}
  /\ warnings = {}
  /\ tasks = <<>>
  /\ puts = <<>>
  /\ bucket = {}
  /\ uploadError = <<>>
  /\ commentPosted = FALSE
  /\ commentCalls = 0
  /\ comments = <<>>
  /\ outputs = [screenshotCount |-> "unset", screenshotDirectory |-> "unset"]
  /\ thrown = FALSE
  /\ failedMsgs = <<>>
  /\ FusedIdle
  /\ CropIdle
  /\ CanvasIdle
  /\ GitIdle
  /\ ParseIdle

\* what a capture run leaves alone
captureIdleVars ==
  <<isPR, inputs, basePngs, prPngs, captureDir, idx, hasDiffs, imagesToUpload,
    deletedScreenshots, exitOf, infoLog, warnings, uploadVars, commentVars,
    hasBase, hasChanges, screenshotsCommitted, combinedFiles, rewritten,
    ciBranch, gitLog, cropVars, canvasVars, bboxOf, gitVars, parseVars>>

\* mutant: every directory entry is counted
EndsWithPngAny(f) == TRUE

\* f.endsWith('.png')
EndsWithPng(f) == f.ext = ".png"

\* files.filter(f => f.endsWith('.png'))
pngFiles == {f \in captureDir.files : EndsWithPng(f)}

\* process.chdir and, if (inputs.installDeps), npm ci and playwright install
CaptureStart ==
  /\ pc = "c:start"
  /\ cwd' = "workingDirectory"
  /\ IF inputs.installDeps
       THEN \E outcome \in {"ok", "npm ci failed", "playwright install failed"} :
              /\ calls' = calls \cup {<<"npm ci", 0>>}
                                \cup (IF outcome # "npm ci failed"
                                        THEN {<<"playwright install", 0>>} ELSE {})
              /\ IF outcome = "ok"
                   THEN pc' = "c:test" /\ NoThrow
                   ELSE Throw(outcome)
       ELSE /\ pc' = "c:test"
            /\ NoThrow
            /\ UNCHANGED calls
  /\ UNCHANGED <<captureIdleVars, outputs>>

\* await exec.exec('bash', ['-c', inputs.playwrightCommand])
CaptureRunTests ==
  /\ pc = "c:test"
  /\ calls' = calls \cup {<<"playwrightCommand", 0>>}
  /\ \E passed \in BOOLEAN :
       IF passed
         THEN pc' = "c:verify" /\ NoThrow
         ELSE Throw("test command failed")
  /\ UNCHANGED <<captureIdleVars, outputs, cwd>>

\* the directory and .png checks, then the two outputs
CaptureVerify ==
  /\ pc = "c:verify"
  /\ IF ~captureDir.exists
       THEN Throw("Screenshot directory not found") /\ UNCHANGED outputs
       ELSE IF Cardinality(pngFiles) = 0
         THEN Throw("No .png files found") /\ UNCHANGED outputs
         ELSE /\ outputs' = [screenshotCount |-> ToString(Cardinality(pngFiles)),
                             screenshotDirectory |-> "screenshotDir"]
              /\ pc' = "done"
              /\ NoThrow
  /\ UNCHANGED <<captureIdleVars, calls, cwd>>

NextCapture ==
  \/ CaptureStart
  \/ CaptureRunTests
  \/ CaptureVerify

SpecCapture == InitCapture /\ [][NextCapture]_vars

\* ========================================================================
\* Properties
\* ========================================================================
BaseSet == Range(basePngs)
PrSet == Range(prPngs)
Failed == failedMsgs # <<>>

\* how the run classified a name
ClassNew(n) == <<"New screenshot", n>> \in infoLog
ClassDeleted(n) == <<"Deleted screenshot", n>> \in infoLog
ClassChanged(n) == <<"Visual changes detected", n>> \in infoLog
\* compared by the diff tool and not reported as changed
ClassIdentical(n) == exitOf[n] # -1 /\ ~ClassChanged(n)
NumClasses(n) ==
  (IF ClassNew(n) THEN 1 ELSE 0) + (IF ClassDeleted(n) THEN 1 ELSE 0)
  + (IF ClassChanged(n) THEN 1 ELSE 0) + (IF ClassIdentical(n) THEN 1 ELSE 0)

\* C1: a compare-mode run is marked failed exactly when an error reached the
\* catch of run() or fail-on-changes is true and has-diffs is true; a failed
\* comment post or a non-pull-request context alone never fail it.
C1_FailedExactly ==
  pc = "done" =>
    /\ Failed <=> (thrown \/ (inputs.failOnChanges /\ outputs.hasDiffs = "true"))
    /\ (~thrown /\ ~inputs.failOnChanges) => ~Failed
    /\ (~thrown /\ ~InPullRequest) => ~Failed

C1_Witness ==
  /\ pc = "done"
  /\ ~thrown
  /\ inputs.failOnChanges
  /\ outputs.hasDiffs = "true"
  /\ failedMsgs = << <<"Visual changes detected">> >>

C3_OneUploadPerKey ==
  /\ \A k \in DOMAIN puts : puts[k] <= 1
  /\ (DOMAIN tasks # {} /\ \A g \in DOMAIN tasks : tasks[g] = "fulfilled") =>
       /\ DOMAIN puts = {imagesToUpload[i].hash : i \in DOMAIN imagesToUpload}
       /\ \A k \in DOMAIN puts : puts[k] = 1
       /\ \A i \in DOMAIN imagesToUpload :
            imagesToUpload[i].url = PublicUrl(imagesToUpload[i].hash)
       /\ \A i, j \in DOMAIN imagesToUpload :
            imagesToUpload[i].bytes = imagesToUpload[j].bytes =>
              imagesToUpload[i].url = imagesToUpload[j].url

C3_Witness ==
  /\ DOMAIN tasks # {}
  /\ \A g \in DOMAIN tasks : tasks[g] = "fulfilled"
  /\ \E i, j \in DOMAIN imagesToUpload :
       /\ i # j
       /\ imagesToUpload[i].bytes = imagesToUpload[j].bytes
       /\ imagesToUpload[i].url = imagesToUpload[j].url
       /\ puts[imagesToUpload[i].hash] = 1

\* C4: uploadToR2 throws only after every upload has settled, none having
\* been skipped; the error carries the number of failed uploads out of the
\* number of unique keys, and the run ends failed.
C4_ErrorAfterAllSettled ==
  /\ uploadError # <<>> =>
       /\ \A g \in DOMAIN tasks : tasks[g] \in {"fulfilled", "rejected"}
       /\ \A k \in DOMAIN puts : puts[k] = 1
       /\ uploadError =
            <<Cardinality({g \in DOMAIN tasks : tasks[g] = "rejected"}),
              Cardinality({imagesToUpload[i].hash : i \in DOMAIN imagesToUpload})>>
       /\ uploadError[1] > 0
       /\ pc = "done" /\ Failed
  /\ (pc \in {"comment", "finish", "done"} /\
      \E g \in DOMAIN tasks : tasks[g] = "rejected") => uploadError # <<>>

C4_Witness ==
  /\ uploadError # <<>>
  /\ uploadError[1] < uploadError[2]
  /\ \E g \in DOMAIN tasks : tasks[g] = "fulfilled"

C7_CropInsideImage ==
  cropOut.variant # "none" =>
    /\ cropOut.geom.finalY >= 0
    /\ cropOut.geom.finalY + cropOut.geom.finalHeight <= cropIn.H

C9_LayoutCountsAsChanged ==
  \A n \in Names :
    (exitOf[n] = LayoutDiffExit /\ outputs.hasDiffs # "unset") =>
      outputs.hasDiffs = "true"

\* the iteration of the prPngs loop for prPngs[i] has completed
PrFileDone(i) ==
  IF pc \in {"compare", "odiff", "bbox", "crop"} \/ (pc = "done" /\ outputs.hasDiffs = "unset")
    THEN i < idx
    ELSE pc # "start"

\* C10: odiff, identify and convert are invoked for a name only if it is in
\* both sets; a candidate-only name is logged as new and skipped.
C10_ToolsOnlyForCommon ==
  /\ \A c \in calls : c[2] \in BaseSet \cap PrSet
  /\ \A n \in Names : ClassNew(n) => n \in PrSet \ BaseSet
  /\ \A i \in DOMAIN prPngs :
       (prPngs[i] \notin BaseSet /\ PrFileDone(i)) =>
         /\ ClassNew(prPngs[i])
         /\ \E j \in DOMAIN imagesToUpload :
              imagesToUpload[j].name = prPngs[i] /\ imagesToUpload[j].kind = "new"

C10_Witness ==
  /\ pc = "done"
  /\ \E n \in Names : ClassNew(n)
  /\ \E c \in calls : c[1] = "crop"

\* the names a section of a comment lists, in order
NamesOf(entries) == [i \in DOMAIN entries |-> entries[i].name]

\* C11: a posted comment is the heading, then the non-empty ones of the
\* Modified, New and Deleted sections in that order, then the footer; New
\* lists exactly the candidate-only names and Deleted exactly the base-only
\* names (each with the image of the base directory), Modified the names a
\* composite was produced for, all in the order they were encountered.
C11_CommentStructure ==
  \A i \in DOMAIN comments :
    LET c == comments[i]
        present == SelectSeq(<<"modified", "new", "deleted">>,
                             LAMBDA kind : Len(c[kind]) > 0)
    IN  /\ c.blocks = <<"heading">> \o present \o <<"footer">>
        /\ NamesOf(c.new) = SelectSeq(prPngs, LAMBDA n : n \notin BaseSet)
        /\ NamesOf(c.deleted) = SelectSeq(basePngs, LAMBDA n : n \notin PrSet)
        /\ NamesOf(c.modified) =
             SelectSeq(prPngs, LAMBDA n : <<"combine", n>> \in calls)
        /\ \A e \in Range(c.new) : e.path = <<"prDir", e.name>>
        /\ \A e \in Range(c.deleted) : e.path = <<"baseDir", e.name>>
        /\ \A e \in Range(c.modified) : e.path = <<"diffsDir", e.name>>

C11_Witness ==
  /\ Len(comments) = 1
  /\ comments[1].blocks = <<"heading", "modified", "new", "footer">>
  /\ comments[1].new # <<>>

\* the bounding box of a changed screenshot was parsed
BBoxParsed(n) == <<"Match result: MATCHED", n>> \in infoLog
\* the composites queued for a name
Composites(n) ==
  {j \in DOMAIN imagesToUpload :
     imagesToUpload[j].name = n /\ imagesToUpload[j].kind = "modified"}
\* post-comment is enabled and neither a tool, an upload nor the API failed
CommentSucceeds ==
  /\ pc = "done"
  /\ ~thrown
  /\ InPullRequest
  /\ inputs.postComment
  /\ "Failed to post PR comment" \notin warnings

ExtendedToMax(c) ==
  /\ c.base = c.new
  /\ c.base.width = Max(c.baseDims.width, c.newDims.width)
  /\ c.base.height = Max(c.baseDims.height, c.newDims.height)
  /\ c.anchor = IF c.baseDims # c.newDims THEN "northwest" ELSE "none"

\* C13: when the base and the candidate image of a screenshot differ in
\* width or height both are extended to (max width, max height) with the
\* top-left corner as anchor before the diff tool is first invoked for it;
\* the diff tool is never given images of unequal dimensions.
C13_ExtendedBeforeDiff ==
  /\ mismatched = {}
  /\ canvas # NoCanvas =>
       /\ pc \in {"odiff", "f:odiff"}
       /\ <<"odiff", CurFile>> \notin calls
       /\ canvas.base = canvas.new
       /\ canvas.anchor = "northwest" => <<"extent", CurFile>> \in calls
       \* whatever identify reported for the two images on disk now
       /\ \A baseDims, newDims \in Dims :
            LET c == IF inputs.mode = "fused" THEN FusedCanvas(baseDims, newDims)
                                             ELSE Canvas(baseDims, newDims)
            IN  OnDisk(c) = canvas => ExtendedToMax(c)
  /\ \A n \in Names :
       (<<"odiff", n>> \in calls /\
        (<<"Extending canvases", n>> \in infoLog \/
         <<"Dimension mismatch", n>> \in infoLog)) => <<"extent", n>> \in calls

C13_Witness ==
  /\ canvas # NoCanvas
  /\ canvas.anchor = "northwest"
  /\ canvas.base = [width |-> MaxDim, height |-> MaxDim]
  /\ \E n \in Names :
       /\ <<"Extending canvases", n>> \in infoLog
       /\ <<"extent", n>> \in calls
       /\ <<"odiff", n>> \in calls

\* the bounding-box command ran for n and printed nothing a regex can match
BBoxUnparsed(n) == bboxOf[n] = "empty"
\* every way the model has of failing a run other than fail-on-changes
ToolFailures ==
  {"Input required and not supplied", "No screenshots found in PR artifact",
   "identify failed", "convert failed", "mogrify failed", "uploads failed",
   "npm ci failed", "test command failed", "git command failed",
   "git fetch failed", "nothing to commit", "git push rejected"}

\* C14: a changed screenshot whose bounding-box output is not parsed is
\* skipped from cropping, compositing and upload; has-diffs is still true;
\* the run is failed only by a failing command or by fail-on-changes.
C14_UnparsedBBoxSkipped ==
  /\ \A n \in Names :
       BBoxUnparsed(n) =>
         /\ exitOf[n] = PixelDiffExit
         /\ hasDiffs
         /\ outputs.hasDiffs # "unset" => outputs.hasDiffs = "true"
         /\ <<"crop", n>> \notin calls
         /\ <<"combine", n>> \notin calls
         /\ Composites(n) = {}
         /\ n \notin Range(combinedFiles)
         /\ \A k \in DOMAIN comments :
              n \notin Range(NamesOf(comments[k].modified))
  /\ (pc = "done" /\ ~thrown /\ ~inputs.failOnChanges) => ~Failed
  /\ \A i \in DOMAIN failedMsgs :
       failedMsgs[i][1] = "Action failed" => failedMsgs[i][2] \in ToolFailures

C14_Witness ==
  /\ pc = "done"
  /\ ~Failed
  /\ outputs.hasDiffs = "true"
  /\ \E n \in Names : BBoxUnparsed(n) /\ n = prPngs[1]
  /\ \E n \in Names : <<"combine", n>> \in calls

\* the .png entries of the screenshot directory, by their extension
PngEntries == {f \in captureDir.files : f.ext = ".png"}
TestsPassed == <<"playwrightCommand", 0>> \in calls /\ pc \in {"c:verify", "done"}
                 /\ (thrown => failedMsgs[1][2] # "test command failed")
OutputsSet ==
  outputs.screenshotCount # "unset" \/ outputs.screenshotDirectory # "unset"

PrWarnings ==
  {"Not running in a pull request context",
   "This action is designed to run on pull requests"}

StageFailures ==
  {"identify failed", "mogrify failed", "convert failed", "git command failed",
   "git fetch failed", "nothing to commit", "git push rejected"}
FusedOutputsSet == \A f \in DOMAIN outputs : outputs[f] # "unset"

\* C17: in the fused run a failure inside the comparison, the comment stage
\* (its upload included) or the commit stage never prevents the later stages
\* from being attempted nor the outputs from being set.
C17_StagesIndependent ==
  (/\ inputs.mode = "fused"
   /\ isPR
   /\ pc = "done"
   /\ thrown => failedMsgs[1][2] \in StageFailures)
  => /\ FusedOutputsSet
     /\ FusedShouldCommit => gitLog # <<>>

\* the run got past fetching the base screenshots and has none
NoBaseObtained ==
  \/ inputs.mode = "fused" /\ ~hasBase
  \/ inputs.mode = "compare" /\ basePngs = <<>>
ReportedNew(n) ==
  <<"New screenshot", n>> \in infoLog \/ <<"New screenshot detected", n>> \in infoLog

\* C18: when the base screenshots cannot be obtained the run is not failed:
\* it logs a warning, continues with an empty base set and reports every
\* candidate screenshot as new.
C18_NoBaseAllNew ==
  (pc = "done" /\ isPR /\ ~thrown /\ NoBaseObtained) =>
    /\ ~inputs.failOnChanges => ~Failed
    /\ warnings # {}
    /\ \A n \in PrSet : ReportedNew(n)
    /\ PrSet # {} => outputs.hasDiffs = "true"

\* the commit stage has issued cmd
Issued(cmd) == cmd \in Range(gitLog)
CommitWarned == "Failed to commit screenshots" \in warnings
\* the screenshots commit, or the amended tip, is on the remote head branch
PushSucceeded ==
  \E i \in DOMAIN remoteHead :
    remoteHead[i] = ScreenshotsCommit \/ remoteHead[i].amended

\* C19: the fused commit stage issues commands only when has-changes holds
\* and commit-screenshots is set; a failing command of the stage only logs a
\* warning: the run is not thrown out of, all four outputs are set and the
\* run is failed by nothing but fail-on-changes; screenshots-committed is
\* 'true' exactly when the push to the head branch went through.
C19_CommitStage ==
  /\ gitLog # <<>> => (hasChanges /\ inputs.commitScreenshots)
  /\ CommitWarned =>
       /\ gitLog # <<>>
       /\ ~screenshotsCommitted
       /\ ~PushSucceeded
       /\ pc = "done" =>
            /\ ~thrown
            /\ FusedOutputsSet
            /\ outputs.screenshotsCommitted = "false"
            /\ Failed => FusedFailRequested
  /\ screenshotsCommitted <=> PushSucceeded
  /\ (pc = "done" /\ FusedOutputsSet) =>
       (outputs.screenshotsCommitted = "true" <=> PushSucceeded)

\* C19 witness: the push itself failed, the run ended with the outputs set
C19_Witness ==
  /\ pc = "done"
  /\ CommitWarned
  /\ Issued("git push --force-with-lease")
  /\ FusedOutputsSet
  /\ outputs.hasChanges = "true"

\* a commit of another party is on the remote head branch, amended or not
KeptOnRemote(k) ==
  \E i \in DOMAIN remoteHead :
    remoteHead[i].author = "other" /\ remoteHead[i].n = k

\* C20: every commit another party pushed stays on the remote head branch,
\* and a push attempted while the remote differs from what was fetched is
\* rejected: a successful push leaves exactly the rebased local branch there.
C20_LeaseProtectsRemote ==
  /\ \A k \in 1..otherPushes : KeptOnRemote(k)
  /\ (Issued("git push --force-with-lease") /\ remoteHead # tracking) =>
       (~screenshotsCommitted /\ CommitWarned)
  /\ screenshotsCommitted =>
       (remoteHead = localHead /\ \A k \in 1..otherPushes :
                                    \E i \in DOMAIN localHead :
                                      localHead[i].author = "other"
                                        /\ localHead[i].n = k)

\* C20 witness: another party pushed between the fetch and the push, and the
\* push was rejected
C20_Witness ==
  /\ Issued("git push --force-with-lease")
  /\ otherPushes > 0
  /\ remoteHead # tracking
  /\ localHead # tracking
  /\ ~screenshotsCommitted
  /\ KeptOnRemote(otherPushes)

PostWarned == "Failed to post PR comment" \in warnings

\* C21: a run calls createComment at most once and only adds a comment; the
\* comment-posted output is 'true' exactly when the call was accepted; a
\* rejected call leaves a warning, and the run ends with has-diffs 'true' and
\* failed by nothing but fail-on-changes.
C21_CommentOnce ==
  /\ commentCalls <= 1
  /\ Len(comments) <= commentCalls
  /\ commentPosted <=> Len(comments) = 1
  /\ PostWarned <=> (commentCalls = 1 /\ comments = <<>>)
  /\ (pc = "done" /\ commentCalls = 1) =>
       /\ ~thrown
       /\ outputs.commentPosted = ToStr(Len(comments) = 1)
       /\ hasDiffs /\ outputs.hasDiffs = "true"
       /\ Failed <=> inputs.failOnChanges
  /\ (pc = "done" /\ ~thrown /\ isPR /\ commentCalls = 0
        /\ inputs.mode \in {"compare", "fused"}) =>
       outputs.commentPosted = "false"

\* C21 witness: the call was rejected and the run ended without failing
C21_Witness ==
  /\ pc = "done"
  /\ PostWarned
  /\ outputs.commentPosted = "false"
  /\ outputs.hasDiffs = "true"
  /\ ~Failed

\* the text is a decimal numeral, nothing else
IsNumeral(t) ==
  /\ t # <<>>
  /\ \A i \in DOMAIN t : IsDigit(t[i]) \/ t[i] = "."
  /\ Cardinality({i \in DOMAIN t : t[i] = "."}) <= 1
  /\ \E i \in DOMAIN t : IsDigit(t[i])
\* the number a numeral denotes, in multiples of 10^-MaxThresholdLen
Denoted(t) ==
  LET dot == IF \E i \in DOMAIN t : t[i] = "."
               THEN CHOOSE i \in DOMAIN t : t[i] = "."
               ELSE Len(t) + 1
  IN IntValue(SubSeq(t, 1, dot - 1)) * Scale
       + IntValue(SubSeq(t, dot + 1, Len(t))) * Pow10(MaxThresholdLen - (Len(t) - dot))
InUnitRange(t) == IsNumeral(t) /\ Denoted(t) <= Scale

\* C22: for every diff-threshold numeral in 0.0 .. 1.0, 0 included, both
\* --threshold arguments equal the number typed; the default is used only for
\* the omitted input.
C22_ThresholdUnmodified ==
  \A i \in DOMAIN thresholdArgs :
    /\ InUnitRange(thresholdInput) => thresholdArgs[i][2] = Denoted(thresholdInput)
    /\ thresholdInput = <<>> => thresholdArgs[i][2] = DefaultDiffThreshold

\* the content-addressed names of the composites of this run
UploadKeys == {imagesToUpload[i].hash : i \in DOMAIN imagesToUpload}
\* failures of the upload that the surroundings cause, not the artifacts
CiEnvironmentFailures == {"git command failed", "git push rejected"}

\* C23: in the fused run with the CI branch as store, an upload that finds
\* every artifact already in the CI branch does not fail over it: the stage
\* succeeds (or fails for a reason of the environment only).
C23_RerunSucceeds ==
  (/\ inputs.mode = "fused"
   /\ inputs.useCiBranch
   /\ uploadError # <<>>
   /\ ciBranch.exists = TRUE
   /\ UploadKeys \subseteq ciBranch.files)
  => uploadError[1] \in CiEnvironmentFailures

\* C24: a fused run that ends without an error and in which the diff tool
\* returned a non-zero exit code for some screenshot of both sets reports
\* has-diffs 'true' and, with fail-on-changes, is failed with 'Visual
\* changes detected'.
C24_NonZeroExitIsDiff ==
  (/\ inputs.mode = "fused"
   /\ pc = "done"
   /\ ~thrown
   /\ \E n \in Names : exitOf[n] \notin {-1, IdenticalExit})
  => /\ outputs.hasDiffs = "true"
     /\ inputs.failOnChanges =>
          <<"Visual changes detected">> \in Range(failedMsgs)

\* the commands of the stage that act on the repository's history
VcsCommands ==
  {"git stash push", "git fetch", "git rebase", "git stash pop", "git add",
   "git commit", "git commit --amend", "git push --force-with-lease"}
VcsLog == SelectSeq(gitLog, LAMBDA c : c \in VcsCommands)
ExpectedVcsOrder ==
  <<"git stash push", "git fetch", "git rebase", "git stash pop", "git add",
    IF inputs.amendCommit THEN "git commit --amend" ELSE "git commit",
    "git push --force-with-lease">>
\* the checked-out branch is the fetched head with the screenshots on top
\* (or in its amended tip)
RebasedAndCommitted ==
  /\ localHead # <<>>
  /\ IF inputs.amendCommit
       THEN /\ Len(localHead) = Len(tracking)
            /\ SubSeq(localHead, 1, Len(localHead) - 1)
                 = SubSeq(tracking, 1, Len(tracking) - 1)
            /\ localHead[Len(localHead)].amended
       ELSE localHead = Append(tracking, ScreenshotsCommit)

\* C25: the commit stage issues stash push, fetch, rebase, stash pop, add,
\* one commit (amend exactly when amend-commit is set) and the push in this
\* order, stopping at the first command that fails; when the push is issued
\* the local branch is the fetched head plus the screenshots commit.
C25_CommitOrder ==
  /\ Len(VcsLog) <= Len(ExpectedVcsOrder)
  /\ VcsLog = SubSeq(ExpectedVcsOrder, 1, Len(VcsLog))
  /\ (CommitWarned /\ inputs.mode = "fused") => pc \in {"f:outputs", "done"}
  /\ Issued("git push --force-with-lease") =>
       \/ RebasedAndCommitted
       \/ screenshotsCommitted /\ tracking = localHead

\* C25 witness: the whole sequence ran with an amended commit
C25_Witness ==
  /\ inputs.amendCommit
  /\ screenshotsCommitted
  /\ Len(VcsLog) = Len(ExpectedVcsOrder)
  /\ otherPushes > 0

\* the numbers the printed text stands for
BBoxMeant ==
  LET sign == IF bboxText.form = "negative" THEN -1 ELSE 1
  IN <<IntValue(bboxText.w), IntValue(bboxText.h),
       sign * IntValue(bboxText.x), sign * IntValue(bboxText.y)>>

\* C26: for each of the forms WxH+X+Y, WxH++X++Y and WxH+-X+-Y the parser
\* matches (so the screenshot is cropped) and yields the numbers W, H, X, Y
\* of the text.
C26_BBoxFormsParsed ==
  bboxResult # NoResult =>
    /\ bboxResult.match.ok
    /\ bboxResult.match.caps = BBoxMeant

\* C27: for a bounding box inside the image the crop of either variant
\* covers the changed region vertically: it starts at or above y and ends at
\* or below y + h.
C27_CropCoversRegion ==
  cropOut.variant # "none" =>
    /\ cropOut.geom.finalY <= cropIn.y
    /\ cropOut.geom.finalY + cropOut.geom.finalHeight >= cropIn.y + cropIn.h

\* C27 witness: the fused clamp moved the offset above y - P, and the region
\* reaches the bottom edge of the image
C27_Witness ==
  /\ cropOut.variant = "fused"
  /\ cropOut.geom.finalY < Max(0, cropIn.y - cropIn.P)
  /\ cropIn.y + cropIn.h = cropIn.H
  /\ cropOut.geom.finalY + cropOut.geom.finalHeight = cropIn.H

\* C28: whenever the fused run is at, or inside, its commit stage, the
\* process is in the directory entered from working-directory at the start
\* of the run.
C28_CommitInWorkingDirectory ==
  (inputs.mode = "fused" /\ (pc = "f:commit" \/ gitLog # <<>>))
    => cwd = "workingDirectory"

\* C29: the candidate screenshots a fused run has staged or pushed are the
\* files the test command wrote: the comparison rewrote none of them.
C29_CandidatesUntouched ==
  (inputs.mode = "fused" /\ (Issued("git add") \/ screenshotsCommitted))
    => rewritten = {}

\* the uploads of uploadToR2 are in flight or have been joined
UploadsRunning == DOMAIN tasks # {}
\* every url is still empty or the public URL of the image's own key, and it
\* is set exactly when the upload of that key was fulfilled
UrlsOwnKey ==
  UploadsRunning =>
    \A i \in DOMAIN imagesToUpload :
      /\ imagesToUpload[i].url \in {NoUrl, PublicUrl(imagesToUpload[i].hash)}
      /\ imagesToUpload[i].url # NoUrl <=>
           tasks[GroupKey(imagesToUpload[i])] = "fulfilled"
\* a step writes only urls that were empty, and only when the upload of the
\* image's key is fulfilled by that very step
UrlWrittenOnce ==
  \A i \in DOMAIN imagesToUpload :
    (i \in DOMAIN imagesToUpload' /\ imagesToUpload'[i].url # imagesToUpload[i].url) =>
      /\ imagesToUpload[i].url = NoUrl
      /\ UploadsRunning
      /\ tasks[GroupKey(imagesToUpload[i])] = "sent"
      /\ tasks'[GroupKey(imagesToUpload[i])] = "fulfilled"

\* C30: with the uploads of distinct keys completing or failing in any
\* order, each image's url is written at most once, by the upload of its own
\* key only, and is then publicUrl/<its key>; once all uploads succeeded the
\* urls are a function of the keys alone.
C30_UrlsOrderIndependent ==
  /\ [](/\ UrlsOwnKey
        /\ pc = "comment" =>
             \A i \in DOMAIN imagesToUpload :
               imagesToUpload[i].url = PublicUrl(imagesToUpload[i].hash))
  /\ [][UrlWrittenOnce]_vars

\* C30 witness: a later key's upload is fulfilled, and its images carry their
\* url, while an earlier key's upload is still in flight and another was
\* rejected
C30_Witness ==
  \E i, j \in DOMAIN imagesToUpload :
    /\ UploadsRunning
    /\ i < j
    /\ imagesToUpload[i].hash # imagesToUpload[j].hash
    /\ tasks[GroupKey(imagesToUpload[j])] = "fulfilled"
    /\ imagesToUpload[j].url = PublicUrl(imagesToUpload[j].hash)
    /\ tasks[GroupKey(imagesToUpload[i])] \in {"reading", "sent", "rejected"}
    /\ imagesToUpload[i].url = NoUrl

====
